---- MODULE Spec2Model ----
(***************************************************************************)
(* Order service (src/order-service/server.js) together with the product   *)
(* service it calls (src/unnamed/part_000).                                 *)
(*                                                                         *)
(* State: the orders table, the products table, the in-flight requests of  *)
(* the order service with the position of each handler and its locals, and *)
(* whether each remote service currently answers.  Money is in cents       *)
(* (DECIMAL(10,2)).  JSON body fields are tagged values so that JavaScript *)
(* truthiness (!x) is computed as the code computes it.                    *)
(***************************************************************************)
EXTENDS Integers, Sequences, FiniteSets, TLC

(* ------------------------------ bounds --------------------------------- *)
\* rows the orders sequence (SERIAL) may hand out in one run
MaxOrders == 2

\* The requests in flight.  Every handler reaches the orders table in exactly one
\* statement, so requests running side by side are equivalent to requests served
\* in the order of their statements: one connection carries them one by one,
\* while the catalog and the remote services change under it.
Reqs == {"r1"}
\* prices (cents) the catalog is given: 19.99 and 2.50
Prices == {1999, 250}
\* ids the products sequence (SERIAL) hands out in one run
ProductIds == {1}

(* --------------------------- program constants ------------------------- *)
\* status VARCHAR(50)
StatusMaxLen == 50

(* ----------------------------- JSON values ----------------------------- *)
JsUndef == [t |-> "undef", v |-> 0]
JsNum(n) == [t |-> "num", v |-> n]
\* a non-empty string that is no decimal number, such as "abc"; v is unused
JsText == [t |-> "str", v |-> 0]

\* JavaScript truthiness of a body field: undefined and 0 are falsy
Truthy(x) == \/ x.t = "str"
             \/ x.t = "num" /\ x.v # 0

\* a status of StatusMaxLen + 1 characters
LongStatus == "012345678901234567890123456789012345678901234567890"
Statuses == {"", "shipped", LongStatus}

UserIdInputs == {JsUndef, JsNum(0), JsNum(1)}
ProductIdInputs == {JsUndef, JsNum(0)} \cup {JsNum(p) : p \in ProductIds}
QuantityInputs == {JsUndef, JsNum(0), JsNum(-1), JsNum(3), JsText}

EmptyBody == [user_id |-> JsUndef, product_id |-> JsUndef,
              quantity |-> JsUndef, status |-> ""]

(* ------------------------------ responses ------------------------------ *)
NoRes == [status |-> 0, error |-> "", data |-> <<>>, message |-> ""]
ErrorRes(code, msg) == [status |-> code, error |-> msg, data |-> <<>>, message |-> ""]
DataRes(code, rows) == [status |-> code, error |-> "", data |-> rows, message |-> ""]
MessageRes(msg) == [status |-> 200, error |-> "", data |-> <<>>, message |-> msg]

\* the 404 of the three handlers that address one order
OrderNotFound == ErrorRes(404, "Order not found")

(* -------------------------- outbound call state ------------------------ *)
Null == [isNull |-> TRUE]
NotIssued == [st |-> "none", data |-> Null]
Pending == [st |-> "pending", data |-> Null]
Returned(d) == [st |-> "returned", data |-> d]

VARIABLES
  orders,      \* the orders table: a set of rows
  nextId,      \* the orders SERIAL sequence
  products,    \* the products table of the catalog: a set of rows
  pNextId,     \* the products SERIAL sequence
  silent,      \* the remote services that accept a call and never answer it
  req,         \* per connection: the handler running on it and its locals
  deleted200   \* history: ids for which a DELETE has answered 200

vars == <<orders, nextId, products, pNextId, silent, req, deleted200>>

Idle == [op |-> "idle", pc |-> "idle", id |-> 0, body |-> EmptyBody,
         rows |-> <<>>, ucall |-> <<>>, pcall |-> <<>>, total |-> 0,
         res |-> NoRes, nIns |-> 0, nUser |-> 0, nProd |-> 0,
         doneOrder |-> <<>>]

Ids(T) == {x.id : x \in T}

(* --------------------------- order store gateway ----------------------- *)
RECURSIVE SortById(_)
\* SELECT * FROM orders ORDER BY id
SortById(T) ==
  IF T = {} THEN <<>>
  ELSE LET m == CHOOSE x \in T : \A y \in T : x.id <= y.id
       IN <<m>> \o SortById(T \ {m})

\* SELECT * FROM orders WHERE id = $1
SelectById(T, id) == SortById({x \in T : x.id = id})

\* the INSERT's parameters are accepted by the column types: quantity INTEGER
InsertAccepted(quantity) == quantity.t = "num"

\* INSERT INTO orders (user_id, product_id, quantity, total_price) ... RETURNING *
NewRow(id, user_id, product_id, quantity, total_price) ==
  [id |-> id, user_id |-> user_id, product_id |-> product_id,
   quantity |-> quantity, total_price |-> total_price,
   status |-> "pending", created_at |-> id]  \* the store's clock: the insert's ordinal

\* the UPDATE's parameter is accepted by the column type: status VARCHAR(50)
UpdateAccepted(status) == Len(status) <= StatusMaxLen

UpdateStatusNoWhere(T, id, status) == {[x EXCEPT !.status = status] : x \in T}
\* UPDATE orders SET status = $1 WHERE id = $2
UpdateStatus(T, id, status) ==
  {IF x.id = id THEN [x EXCEPT !.status = status] ELSE x : x \in T}

\* DELETE FROM orders WHERE id = $1
DeleteById(T, id) == {x \in T : x.id # id}

(* ------------------- product service (the catalog) --------------------- *)
\* GET /api/products/:id: the row, or a 404 that axios turns into a throw
GetProduct(id) == SortById({x \in products : x.id = id})

\* POST /api/products with a name and a truthy price
ProductCreate(price) ==
  /\ pNextId \in ProductIds
  /\ products' = products \cup {[id |-> pNextId, name |-> "Widget", price |-> price]}
  /\ pNextId' = pNextId + 1
  /\ UNCHANGED <<orders, nextId, silent, req, deleted200>>

\* PUT /api/products/:id
ProductUpdate(id, price) ==
  /\ id \in Ids(products)
  /\ products' = {IF x.id = id THEN [x EXCEPT !.price = price] ELSE x : x \in products}
  /\ products' # products
  /\ UNCHANGED <<orders, nextId, pNextId, silent, req, deleted200>>

\* DELETE /api/products/:id
ProductDelete(id) ==
  /\ id \in Ids(products)
  /\ products' = {x \in products : x.id # id}
  /\ UNCHANGED <<orders, nextId, pNextId, silent, req, deleted200>>

(* ---------------- a remote service stops answering --------------------- *)
Services == {"user", "product"}

\* from now on the service accepts calls and never answers them
GoSilent(s) ==
  /\ s \notin silent
  /\ silent' = silent \cup {s}
  /\ UNCHANGED <<orders, nextId, products, pNextId, req, deleted200>>

(* ----------------------------- resolvers ------------------------------- *)
\* how a call to the user service ends: 200 with the user, a non-2xx, no connection
UserOutcomes == {"found", "notfound", "unreachable"}
\* how a call to the product service ends: its handler's answer, no connection
ProductOutcomes == {"answered", "unreachable"}

\* verifyUser: response.data, or null from the catch
VerifyUser(userId, outcome) ==
  IF outcome = "found" THEN [id |-> userId, name |-> "User"] ELSE Null

\* verifyProduct: response.data, or null from the catch
VerifyProduct(productId, outcome) ==
  IF outcome = "answered" /\ GetProduct(productId) # <<>>
  THEN GetProduct(productId)[1]
  ELSE Null

(* ----------------------------- enrichment ------------------------------ *)
\* { ...order, user: u, product: p }
Spread(order, u, p) ==
  [id |-> order.id, user_id |-> order.user_id, product_id |-> order.product_id,
   quantity |-> order.quantity, total_price |-> order.total_price,
   status |-> order.status, created_at |-> order.created_at,
   user |-> u, product |-> p]

EnrichCoupled(order, user, product) ==
  Spread(order,
         IF user # Null /\ product # Null THEN user
         ELSE [id |-> order.user_id, name |-> "Unknown User"],
         IF product # Null THEN product
         ELSE [id |-> order.product_id, name |-> "Unknown Product"])
\* user: user || { id: order.user_id, name: 'Unknown User' }, and the product alike
Enrich(order, user, product) ==
  Spread(order,
         IF user # Null THEN user
         ELSE [id |-> order.user_id, name |-> "Unknown User"],
         IF product # Null THEN product
         ELSE [id |-> order.product_id, name |-> "Unknown Product"])

EnrichAllByCompletion(rq) ==
  [k \in 1..Len(rq.rows) |->
     Enrich(rq.rows[rq.doneOrder[k]], rq.ucall[rq.doneOrder[k]].data,
            rq.pcall[rq.doneOrder[k]].data)]
\* Promise.all(orders.map(...)): the i-th result is the i-th row's
EnrichAll(rq) ==
  [i \in 1..Len(rq.rows) |-> Enrich(rq.rows[i], rq.ucall[i].data, rq.pcall[i].data)]

AllReturned(rq) ==
  \A i \in 1..Len(rq.rows) : rq.ucall[i].st = "returned" /\ rq.pcall[i].st = "returned"

\* the fan-out of one read: both lookups of every row are issued at once
FanOut(rq, rows) ==
  IF rows = <<>>
  THEN [rq EXCEPT !.pc = "done", !.res = DataRes(200, <<>>)]
  ELSE [rq EXCEPT !.pc = "enrich", !.rows = rows,
                  !.ucall = [i \in 1..Len(rows) |-> Pending],
                  !.pcall = [i \in 1..Len(rows) |-> Pending],
                  !.nUser = Len(rows), !.nProd = Len(rows)]

\* a lookup of row i has returned: the row's promise, then the read's, resolve
Joined(rq, i) ==
  LET rowDone == rq.ucall[i].st = "returned" /\ rq.pcall[i].st = "returned"
      q == [rq EXCEPT !.doneOrder = IF rowDone THEN Append(@, i) ELSE @]
  IN IF AllReturned(q)
     THEN [q EXCEPT !.pc = "done", !.res = DataRes(200, EnrichAll(q))]
     ELSE q

(* --------------------------- GET /api/orders --------------------------- *)
ListStart(r) ==
  /\ req[r].op = "idle"
  /\ req' = [req EXCEPT ![r] = FanOut([Idle EXCEPT !.op = "list"], SortById(orders))]
  /\ UNCHANGED <<orders, nextId, products, pNextId, silent, deleted200>>

(* ------------------------- GET /api/orders/:id ------------------------- *)
GetLookupFirst(rq, rows) ==
  IF rows = <<>>
  THEN [rq EXCEPT !.pc = "done", !.res = OrderNotFound, !.nUser = 1, !.nProd = 1]
  ELSE FanOut(rq, rows)
\* result.rows.length === 0 answers 404 before any lookup
GetFound(rq, rows) ==
  IF rows = <<>>
  THEN [rq EXCEPT !.pc = "done", !.res = OrderNotFound]
  ELSE FanOut(rq, rows)

GetStart(r, id) ==
  /\ req[r].op = "idle"
  /\ req' = [req EXCEPT ![r] =
               GetFound([Idle EXCEPT !.op = "get", !.id = id], SelectById(orders, id))]
  /\ UNCHANGED <<orders, nextId, products, pNextId, silent, deleted200>>

\* a verifyUser of a read returns
ReadUserReply(r, i, outcome) ==
  /\ req[r].pc = "enrich"
  /\ i \in 1..Len(req[r].rows)
  /\ req[r].ucall[i].st = "pending"
  /\ "user" \notin silent
  /\ req' = [req EXCEPT ![r] =
       Joined([req[r] EXCEPT !.ucall[i] =
                 Returned(VerifyUser(req[r].rows[i].user_id, outcome))], i)]
  /\ UNCHANGED <<orders, nextId, products, pNextId, silent, deleted200>>

\* a verifyProduct of a read returns
ReadProductReply(r, i, outcome) ==
  /\ req[r].pc = "enrich"
  /\ i \in 1..Len(req[r].rows)
  /\ req[r].pcall[i].st = "pending"
  /\ "product" \notin silent
  /\ req' = [req EXCEPT ![r] =
       Joined([req[r] EXCEPT !.pcall[i] =
                 Returned(VerifyProduct(req[r].rows[i].product_id, outcome))], i)]
  /\ UNCHANGED <<orders, nextId, products, pNextId, silent, deleted200>>

(* --------------------------- POST /api/orders -------------------------- *)
NaN == [t |-> "nan", v |-> 0]

TotalPriceUnit(product, quantity) ==
  IF quantity.t = "num" THEN JsNum(product.price) ELSE NaN
\* parseFloat(product.price) * quantity, in cents
TotalPrice(product, quantity) ==
  IF quantity.t = "num" THEN JsNum(product.price * quantity.v) ELSE NaN

\* !user_id || !product_id || !quantity
Missing(body) ==
  ~Truthy(body.user_id) \/ ~Truthy(body.product_id) \/ ~Truthy(body.quantity)

\* orders rows the POSTs in flight may still insert
Inserting == Cardinality({r \in Reqs : req[r].op = "post" /\ req[r].pc # "done"})

PostStart(r, body) ==
  /\ req[r].op = "idle"
  /\ nextId + Inserting <= MaxOrders
  /\ req' = [req EXCEPT ![r] =
       IF Missing(body)
       THEN [Idle EXCEPT !.op = "post", !.body = body, !.pc = "done",
               !.res = ErrorRes(400, "user_id, product_id, and quantity are required")]
       ELSE [Idle EXCEPT !.op = "post", !.body = body, !.pc = "user",
               !.ucall = <<Pending>>, !.pcall = <<NotIssued>>, !.nUser = 1]]
  /\ UNCHANGED <<orders, nextId, products, pNextId, silent, deleted200>>

PostAfterUserBoth(rq, user) ==
  [rq EXCEPT !.ucall = <<Returned(user)>>, !.pc = "product",
             !.pcall = <<Pending>>, !.nProd = 1]
\* if (!user) return 400; otherwise verifyProduct is called
PostAfterUser(rq, user) ==
  IF user = Null
  THEN [rq EXCEPT !.ucall = <<Returned(user)>>, !.pc = "done",
                  !.res = ErrorRes(400, "User not found")]
  ELSE [rq EXCEPT !.ucall = <<Returned(user)>>, !.pc = "product",
                  !.pcall = <<Pending>>, !.nProd = 1]

\* the verifyUser of a POST returns
PostUserReply(r, outcome) ==
  /\ req[r].op = "post" /\ req[r].pc = "user"
  /\ "user" \notin silent
  /\ req' = [req EXCEPT ![r] =
       PostAfterUser(req[r], VerifyUser(req[r].body.user_id.v, outcome))]
  /\ UNCHANGED <<orders, nextId, products, pNextId, silent, deleted200>>

\* if (!product) return 400; otherwise the total is computed and the INSERT sent
PostAfterProduct(rq, product) ==
  IF product = Null
  THEN [rq EXCEPT !.pcall = <<Returned(product)>>, !.pc = "done",
                  !.res = ErrorRes(400, "Product not found")]
  ELSE [rq EXCEPT !.pcall = <<Returned(product)>>, !.pc = "insert",
                  !.total = TotalPrice(product, rq.body.quantity)]

\* the verifyProduct of a POST returns
PostProductReply(r, outcome) ==
  /\ req[r].op = "post" /\ req[r].pc = "product"
  /\ "product" \notin silent
  /\ req' = [req EXCEPT ![r] =
       PostAfterProduct(req[r], VerifyProduct(req[r].body.product_id.v, outcome))]
  /\ UNCHANGED <<orders, nextId, products, pNextId, silent, deleted200>>

\* the store runs the INSERT: 201 with the row, or the catch's 500
PostInsert(r) ==
  /\ req[r].op = "post" /\ req[r].pc = "insert"
  /\ IF InsertAccepted(req[r].body.quantity)
     THEN LET row == NewRow(nextId, req[r].body.user_id.v, req[r].body.product_id.v,
                            req[r].body.quantity.v, req[r].total.v)
          IN /\ orders' = orders \cup {row}
             /\ nextId' = nextId + 1
             /\ req' = [req EXCEPT ![r].pc = "done", ![r].nIns = 1,
                                   ![r].res = DataRes(201, <<row>>)]
     ELSE /\ req' = [req EXCEPT ![r].pc = "done",
                ![r].res = ErrorRes(500, "invalid input syntax for type integer")]
          /\ UNCHANGED <<orders, nextId>>
  /\ UNCHANGED <<products, pNextId, silent, deleted200>>

(* ------------------------- PUT /api/orders/:id ------------------------- *)
OrderIds == 1..MaxOrders

Put(r, id, status) ==
  /\ req[r].op = "idle"
  /\ LET rq == [Idle EXCEPT !.op = "put", !.id = id, !.body.status = status, !.pc = "done"]
     IN IF status = ""
        THEN /\ req' = [req EXCEPT ![r] = [rq EXCEPT !.res = ErrorRes(400, "Status is required")]]
             /\ UNCHANGED orders
        ELSE IF ~UpdateAccepted(status)
        THEN /\ req' = [req EXCEPT ![r] =
                  [rq EXCEPT !.res = ErrorRes(500, "value too long for type character varying(50)")]]
             /\ UNCHANGED orders
        ELSE /\ orders' = UpdateStatus(orders, id, status)
             /\ req' = [req EXCEPT ![r] =
                  [rq EXCEPT !.res = IF SelectById(orders, id) = <<>>
                                     THEN OrderNotFound
                                     ELSE DataRes(200, SelectById(orders', id))]]
  /\ UNCHANGED <<nextId, products, pNextId, silent, deleted200>>

(* ------------------------ DELETE /api/orders/:id ----------------------- *)
DeleteResponseAlways(deletedRows) == MessageRes("Order deleted successfully")
\* result.rows.length === 0 answers 404
DeleteResponse(deletedRows) ==
  IF deletedRows = <<>> THEN OrderNotFound
  ELSE MessageRes("Order deleted successfully")

Delete(r, id) ==
  /\ req[r].op = "idle"
  /\ orders' = DeleteById(orders, id)
  /\ req' = [req EXCEPT ![r] =
       [Idle EXCEPT !.op = "delete", !.id = id, !.pc = "done",
                    !.res = DeleteResponse(SelectById(orders, id))]]
  /\ deleted200' = IF req'[r].res.status = 200 THEN deleted200 \cup {id} ELSE deleted200
  /\ UNCHANGED <<nextId, products, pNextId, silent>>

(* ---------------- the client has its response; the next ---------------- *)
Recycle(r) ==
  /\ req[r].pc = "done"
  /\ req' = [req EXCEPT ![r] = Idle]
  /\ UNCHANGED <<orders, nextId, products, pNextId, silent, deleted200>>

(* ------------------------------ the system ----------------------------- *)
Init ==
  /\ orders = {}
  /\ nextId = 1
  /\ products = {}
  /\ pNextId = 1
  /\ silent = {}
  /\ req = [r \in Reqs |-> Idle]
  /\ deleted200 = {}

\* the steps of the order service's handlers on connection r
Progress(r) ==
  \/ \E i \in 1..MaxOrders, o \in UserOutcomes : ReadUserReply(r, i, o)
  \/ \E i \in 1..MaxOrders, o \in ProductOutcomes : ReadProductReply(r, i, o)
  \/ \E o \in UserOutcomes : PostUserReply(r, o)
  \/ \E o \in ProductOutcomes : PostProductReply(r, o)
  \/ PostInsert(r)

\* the catalog changes, and the routes that address one order
OneOrderNext ==
  \/ \E p \in Prices : ProductCreate(p)
  \/ \E id \in ProductIds, p \in Prices : ProductUpdate(id, p)
  \/ \E id \in ProductIds : ProductDelete(id)
  \/ \E r \in Reqs, id \in OrderIds : GetStart(r, id)
  \/ \E r \in Reqs, b \in [user_id : UserIdInputs, product_id : ProductIdInputs,
                           quantity : QuantityInputs, status : {""}] : PostStart(r, b)
  \/ \E r \in Reqs, id \in OrderIds, s \in Statuses : Put(r, id, s)
  \/ \E r \in Reqs, id \in OrderIds : Delete(r, id)
  \/ \E r \in Reqs : Progress(r)
  \/ \E r \in Reqs : Recycle(r)

Next ==
  \/ OneOrderNext
  \/ \E r \in Reqs : ListStart(r)

\* the remote services answer every call
Spec == Init /\ [][Next]_vars

\* the same without GET /api/orders, which changes nothing the other routes read
OneOrderSpec == Init /\ [][OneOrderNext]_vars

\* a remote service may also stop answering
NextSilent ==
  \/ Next
  \/ \E s \in Services : GoSilent(s)

\* an answering remote answers, the store runs its statements, responses are delivered
FairSpec ==
  /\ Init /\ [][NextSilent]_vars
  /\ \A r \in Reqs : WF_vars(Progress(r)) /\ WF_vars(Recycle(r))

(* ======================================================================= *)
(*                               the claims                                *)
(* ======================================================================= *)
Found(call) == call.st = "returned" /\ call.data # Null
Absent(call) == call.st = "returned" /\ call.data = Null
DonePosts == {r \in Reqs : req[r].op = "post" /\ req[r].pc = "done"}
DoneReads == {r \in Reqs : req[r].op \in {"list", "get"} /\ req[r].pc = "done"}

\* C1: a POST with user_id, product_id and quantity all supplied returns 201 and
\* performs exactly one insert if and only if both lookups resolve; an absent user
\* is rejected with 400 'User not found'; every rejected request inserts nothing.
C1_CreatedIffBothResolve ==
  \A r \in DonePosts :
    /\ ~Missing(req[r].body) =>
         /\ (req[r].res.status = 201 /\ req[r].nIns = 1)
              <=> (Found(req[r].ucall[1]) /\ Found(req[r].pcall[1]))
         /\ Absent(req[r].ucall[1]) => req[r].res = ErrorRes(400, "User not found")
    /\ req[r].res.status # 201 => req[r].nIns = 0

\* C3: every request that has been received is eventually answered, whatever the
\* remote services do: no resolver call is left pending for ever.
C3_EveryRequestAnswered ==
  \A r \in Reqs : (req[r].pc \notin {"idle", "done"}) ~> (req[r].pc = "done")

\* C4: every row of the orders table has a positive quantity and a non-negative
\* total_price.
C4_RowsArePositive ==
  \A x \in orders : x.quantity > 0 /\ x.total_price >= 0

\* C5: the row a successful POST stores has total_price = quantity times the price
\* the catalog lookup of that request returned (3 at 19.99 gives 59.97), whatever
\* the catalog holds afterwards.
C5_TotalIsQuantityTimesLookedUpPrice ==
  \A r \in DonePosts :
    req[r].res.status = 201 =>
      LET row == req[r].res.data[1]
      IN /\ row \in orders
         /\ row.quantity = req[r].body.quantity.v
         /\ row.total_price = req[r].body.quantity.v * req[r].pcall[1].data.price
         /\ (row.quantity = 3 /\ req[r].pcall[1].data.price = 1999) => row.total_price = 5997

\* C5 happens: 3 at 19.99 was stored as 59.97 and the catalog no longer holds 19.99
C5_Witness ==
  \E r \in DonePosts :
    /\ req[r].res.status = 201
    /\ req[r].res.data[1].quantity = 3
    /\ req[r].res.data[1].total_price = 5997
    /\ \A x \in products : x.price # 1999

\* C10 as stated: 'User not found' is never returned before the product lookup of
\* the same request has been issued and has completed.
C10_BothLookupsBeforeRejection ==
  \A r \in DonePosts :
    req[r].res.error = "User not found" => req[r].pcall[1].st = "returned"

\* C10 as the code has it: the user lookup has completed when 'User not found' is
\* returned and the product lookup has not been issued; the product lookup is issued
\* only once the user lookup has resolved; 201 and 'Product not found' are returned
\* only when both lookups have completed.
C10_SequentialValidator ==
  \A r \in Reqs :
    req[r].op = "post" =>
      /\ req[r].res.error = "User not found" =>
           Absent(req[r].ucall[1]) /\ req[r].pcall[1] = NotIssued /\ req[r].nProd = 0
      /\ req[r].pcall # <<>> /\ req[r].pcall[1] # NotIssued => Found(req[r].ucall[1])
      /\ req[r].res.status = 201 => Found(req[r].ucall[1]) /\ Found(req[r].pcall[1])
      /\ req[r].res.error = "Product not found" =>
           Found(req[r].ucall[1]) /\ Absent(req[r].pcall[1])

\* C10 happens: 'User not found' was returned for a product the catalog holds
C10_Witness ==
  \E r \in DonePosts :
    /\ req[r].res = ErrorRes(400, "User not found")
    /\ req[r].body.product_id.v \in Ids(products)

\* C2: a read of existing orders returns 200; the user view of a row is the
\* placeholder {id: user_id, name: 'Unknown User'} exactly when its user lookup is
\* absent, the product view is {id: product_id, name: 'Unknown Product'} exactly when
\* its product lookup is absent, and each view depends on its own lookup alone.
C2_ReadsDegradeToPlaceholders ==
  \A r \in DoneReads :
    req[r].rows # <<>> =>
      /\ req[r].res.status = 200
      /\ req[r].res.error = ""
      /\ Len(req[r].res.data) = Len(req[r].rows)
      /\ \A i \in 1..Len(req[r].rows) :
           LET e == req[r].res.data[i]
               o == req[r].rows[i]
           IN /\ e.user = IF Absent(req[r].ucall[i])
                          THEN [id |-> o.user_id, name |-> "Unknown User"]
                          ELSE req[r].ucall[i].data
              /\ e.product = IF Absent(req[r].pcall[i])
                             THEN [id |-> o.product_id, name |-> "Unknown Product"]
                             ELSE req[r].pcall[i].data

\* C2 happens: a list came back with a placeholder user beside a resolved product
\* in one row and a resolved user beside a placeholder product in the other
C2_Witness ==
  \E r \in DoneReads :
    /\ req[r].op = "list"
    /\ Len(req[r].rows) = 2
    /\ Absent(req[r].ucall[1]) /\ Found(req[r].pcall[1])
    /\ Found(req[r].ucall[2]) /\ Absent(req[r].pcall[2])

\* C6: GET /api/orders returns one element per row of SELECT ... ORDER BY id, the
\* i-th element being the enrichment of the i-th row, in ascending id order, in
\* whatever order the lookups of the rows completed.
C6_ListKeepsRowOrder ==
  \A r \in DoneReads :
    req[r].op = "list" =>
      /\ Len(req[r].res.data) = Cardinality(orders)
      /\ {req[r].rows[i] : i \in 1..Len(req[r].rows)} = orders
      /\ \A i \in 1..Len(req[r].res.data) :
           req[r].res.data[i] =
             Enrich(req[r].rows[i], req[r].ucall[i].data, req[r].pcall[i].data)
      /\ \A i, j \in 1..Len(req[r].res.data) :
           i < j => req[r].res.data[i].id < req[r].res.data[j].id

\* C6 happens: the lookups of the second row completed before those of the first
C6_Witness ==
  \E r \in DoneReads :
    /\ req[r].op = "list"
    /\ req[r].doneOrder = <<2, 1>>
    /\ Len(req[r].res.data) = 2

C8_DeleteOnceThenNotFound ==
  [][/\ \A r \in Reqs :
          (req[r].op = "idle" /\ req'[r].op = "delete") =>
            LET id == req'[r].id
            IN /\ id \in Ids(orders) =>
                    /\ req'[r].res = MessageRes("Order deleted successfully")
                    /\ orders' = {x \in orders : x.id # id}
                    /\ id \notin Ids(orders')
                    /\ id \notin deleted200
               /\ id \in deleted200 =>
                    /\ req'[r].res = ErrorRes(404, "Order not found")
                    /\ orders' = orders
     /\ \A id \in deleted200 : id \notin Ids(orders')]_vars

\* C8 happens: the second DELETE of an id was answered 404 while another row stands
C8_Witness ==
  \E r \in Reqs :
    /\ req[r].op = "delete"
    /\ req[r].id \in deleted200
    /\ req[r].res.status = 404
    /\ orders # {}

\* C9: GET /api/orders/{id} for an id the table does not hold answers 404
\* {error: 'Order not found'} and issues no lookup; it answers 404 in no other case.
C9_MissingOrderNoLookups ==
  \A r \in DoneReads :
    req[r].op = "get" =>
      /\ req[r].id \notin Ids(orders) =>
           /\ req[r].res = ErrorRes(404, "Order not found")
           /\ req[r].nUser = 0 /\ req[r].nProd = 0
           /\ req[r].ucall = <<>> /\ req[r].pcall = <<>>
      /\ req[r].res.status = 404 => req[r].id \notin Ids(orders)

\* C9 happens: an id was not found while the table holds another order
C9_Witness ==
  \E r \in DoneReads :
    /\ req[r].op = "get"
    /\ req[r].res.status = 404
    /\ orders # {}

====
